---- MODULE Spec2Model ----
(***************************************************************************)
(* Brand-alignment workflow of AdVisor:                                    *)
(*   advisor/app/api/workflows/brand-alignment/route.ts                    *)
(* The POST handler validates the request, runs the statically composed    *)
(* workflow (six parallel steps, then logo-detection, color-harmony,       *)
(* synthesizer and advisor, each behind a mapping step) and reports the    *)
(* run either as one JSON response or as a server-sent event stream.       *)
(***************************************************************************)
EXTENDS Integers, Sequences, FiniteSets, TLC

(* ------------------------------ bounds -------------------------------- *)
\* longest frame list a frame-extraction collaborator answers with
MaxFrames == 2

(* ------------------------- the declared pipeline ----------------------- *)
\* .parallel([...]) in declaration order
FanOut ==
  <<"overall-critic", "visual-style", "frame-extraction",
    "audio-analysis", "safety-ethics", "message-clarity">>

\* the .then(...) chain after the parallel block
Chain == <<"logo-detection", "color-harmony", "synthesizer", "advisor">>

Range(seq) == {seq[i] : i \in 1..Len(seq)}

FanOutIds == Range(FanOut)
ChainIds == Range(Chain)
StepIds == FanOutIds \cup ChainIds

\* the key under which the engine's step record keeps the run's input
InputId == "input"

\* keys of the .map(...) steps, one in front of every chained step; the
\* handler recognises them by id.startsWith("map")
MappingKey(s) ==
  CASE s = "logo-detection" -> "mapping_1"
    [] s = "color-harmony"  -> "mapping_2"
    [] s = "synthesizer"    -> "mapping_3"
    [] s = "advisor"        -> "mapping_4"

MappingIds == {MappingKey(s) : s \in ChainIds}

startsWithMap_Never(id) == FALSE

\* id.startsWith("map")
startsWithMap(id) == id \in MappingIds

\* the step chained after s, or "none" after the last one
NextInChain(s) ==
  CASE s = "fan-out"        -> "logo-detection"
    [] s = "logo-detection" -> "color-harmony"
    [] s = "color-harmony"  -> "synthesizer"
    [] s = "synthesizer"    -> "advisor"
    [] s = "advisor"        -> "none"

(* ------------------------------ values -------------------------------- *)
\* a request field is absent, the empty string, or a non-empty string
Missing == "<missing>"
Empty == ""
Data == "data"
FieldVals == {Missing, Empty, Data}

Undefined == "undefined"

\* a step record without a timestamp, and the null of a formatted record
NoTime == 0 - 1
NullIso == <<"null", 0>>
NoError == "<none>"

\* step outputs; frames lists the frame_number of every kept frame
NullOutput == [kind |-> "null", frames |-> <<>>, src |-> "none"]
ReportOutput(s) == [kind |-> "report", frames |-> <<>>, src |-> s]
FramesOutput(fs) == [kind |-> "frames", frames |-> fs, src |-> "frame-extraction"]
DetectionOutput == [kind |-> "detection", frames |-> <<>>, src |-> "logo-detection"]
HarmonyOutput == [kind |-> "harmony", frames |-> <<>>, src |-> "color-harmony"]
MergedOutput(k) == [kind |-> "merged", frames |-> <<>>, src |-> k]

\* thrown messages
NoFramesError == "No frames available from frame extraction step"
NoLogoError == "Brand logo is missing"
BrandContextError == "Brand context is incomplete (missing companyName or productName)"
AgentError == "collaborator detail"
EngineError == "engine exception"

(* ------------------------------- state -------------------------------- *)
VARIABLES
  body,            \* the parsed request body (request.json())
  pc,              \* position of the POST handler
  response,        \* the HTTP response returned by POST
  channel,         \* events enqueued on the stream controller, in order
  closed,          \* controller.close() was called
  toSend,          \* formatted steps the stream loop has still to send
  runStatus,       \* status of the workflow run ("none" before run.start)
  runResult,       \* execution.result
  runError,        \* execution.error
  stepStatus,      \* per declared step: pending, running, success, failed
  stepOutput,      \* per declared step: its normalized output
  stepError,       \* per declared step: the message of the thrown error
  executionSteps,  \* keys of execution.steps in insertion order
  calls,           \* per declared step: outbound fetches issued
  requests,        \* per declared step: the body of the fetch it issued
  now,             \* Date.now(), counted in engine steps
  startedAt,       \* per declared step: Date.now() when it was entered
  endedAt,         \* per declared step: Date.now() when it settled
  xStep,           \* the step whose execute is looked at in detail
  xInput,          \* the inputData execute is invoked with
  xCalls,          \* fetches that execute has issued
  xReply,          \* the collaborator's response to its fetch
  xResult,         \* what execute returned
  xAgain,          \* that output normalized once more
  xThrown,         \* the message of the Error execute threw
  xpc,             \* position of that execute
  vpc,             \* position of generateVideoWithVeo3
  operationDone,   \* operation.done
  pollCount,       \* pollCount
  polls,           \* getVideosOperation calls issued
  apc,             \* position of the generate_add request
  adBody,          \* the body of the generate_add request
  adResponse,      \* the JSON response the client last received
  promptGenerated, \* generateVeo3Prompt returned a prompt
  videoCalls,      \* generateVideoWithVeo3 calls, per handler
  upc,             \* position of handleSubmit
  canSubmit,       \* the form has its required fields
  uiReply,         \* how the fetch of handleSubmit settles
  uiStream,        \* events of the response stream not yet read
  delivered,       \* types of the events the reader has delivered
  loading,         \* the component's loading state
  uiError,         \* the component's error state, "null" for null
  workflowResult,  \* the component's workflowResult state
  expandedStepId   \* the component's expandedStepId state

mainVars ==
  <<body, pc, response, channel, closed, toSend, runStatus, runResult,
    runError, stepStatus, stepOutput, stepError, executionSteps, calls, requests,
    now, startedAt, endedAt>>

execVars == <<xStep, xInput, xCalls, xReply, xResult, xAgain, xThrown, xpc>>

pollVars == <<vpc, operationDone, pollCount, polls>>

adVars == <<apc, adBody, adResponse, promptGenerated, videoCalls>>

uiVars ==
  <<upc, canSubmit, uiReply, uiStream, delivered, loading, uiError, workflowResult,
    expandedStepId>>

sideVars == <<pollVars, adVars, uiVars>>

otherThanPoll == <<mainVars, execVars, adVars, uiVars>>

otherThanAd == <<mainVars, execVars, pollVars, uiVars>>

otherThanUi == <<mainVars, execVars, pollVars, adVars>>

vars == <<mainVars, execVars, sideVars>>

handlerVars == <<response, channel, closed, toSend>>
engineVars ==
  <<runStatus, runResult, runError, stepStatus, stepOutput, stepError,
    executionSteps, calls, requests, now, startedAt, endedAt>>

(* ----------------------------- validation ------------------------------ *)
\* min(1, "<field> is required") on a present string; zod reports an absent
\* string as "Required"
IssueMessage(field, value) ==
  IF value = Missing THEN "Required" ELSE field \o " is required"

\* one schema check: a field that is not a non-empty string raises an issue
\* at its path
Issue(path, field, value) ==
  IF value = Data THEN {} ELSE {[path |-> path, message |-> IssueMessage(field, value)]}

ValidationIssues_NoMin(b) ==
  Issue(<<"videoBase64">>, "videoBase64", b.videoBase64)
  \cup Issue(<<"brandLogoBase64">>, "brandLogoBase64", b.brandLogoBase64)
  \cup Issue(<<"brandContext", "companyName">>, "companyName",
             IF b.companyName = Empty THEN Data ELSE b.companyName)
  \cup Issue(<<"brandContext", "productName">>, "productName", b.productName)

\* the issues of workflowInputSchema.safeParse(body), each with its path
ValidationIssues(b) ==
  Issue(<<"videoBase64">>, "videoBase64", b.videoBase64)
  \cup Issue(<<"brandLogoBase64">>, "brandLogoBase64", b.brandLogoBase64)
  \cup Issue(<<"brandContext", "companyName">>, "companyName", b.companyName)
  \cup Issue(<<"brandContext", "productName">>, "productName", b.productName)

\* validation.error.flatten(): every issue is filed under the first element
\* of its path, with its message
Flatten(issues) == {[key |-> i.path[1], message |-> i.message] : i \in issues}

NoResponse ==
  [code |-> 0, kind |-> "none", error |-> NoError, details |-> {},
   status |-> "none", result |-> NullOutput, steps |-> <<>>]

ValidationErrorResponse(b) ==
  [NoResponse EXCEPT !.code = 400, !.kind = "json",
                     !.error = "Invalid request body",
                     !.details = Flatten(ValidationIssues(b))]

(* --------------------------- step executors ---------------------------- *)
\* frameExtractionStep: the frames of the collaborator response, NotAList or
\* a list telling for each frame whether it carries an image string; frames
\* without one are filtered out, the others keep frame_number = index
NotAList == <<"not-a-list">>
WithImage == "image"
WithoutImage == "no-image"

RawFrameLists ==
  {NotAList} \cup UNION {[1..n -> {WithImage, WithoutImage}] : n \in 0..MaxFrames}

RECURSIVE KeptFrames(_, _)
KeptFrames(raw, i) ==
  IF i > Len(raw) THEN <<>>
  ELSE IF raw[i] = WithImage THEN <<i - 1>> \o KeptFrames(raw, i + 1)
  ELSE KeptFrames(raw, i + 1)

NormalizeFrames(raw) == IF raw = NotAList THEN <<>> ELSE KeptFrames(raw, 1)

LogoDetectionPrecheck_NoFrameCheck(frames, logo, company, product) ==
  IF logo \in {Missing, Empty} THEN NoLogoError
  ELSE IF company \in {Missing, Empty} \/ product \in {Missing, Empty}
       THEN BrandContextError
  ELSE NoError

\* logoDetectionStep.execute: the checks in front of the fetch
LogoDetectionPrecheck(frames, logo, company, product) ==
  IF Len(frames) = 0 THEN NoFramesError
  ELSE IF logo \in {Missing, Empty} THEN NoLogoError
  ELSE IF company \in {Missing, Empty} \/ product \in {Missing, Empty}
       THEN BrandContextError
  ELSE NoError

\* what a step's execute throws before it reaches its fetch
Precheck(s, out, b) ==
  IF s = "logo-detection"
  THEN LogoDetectionPrecheck(out["frame-extraction"].frames,
                             b.brandLogoBase64, b.companyName, b.productName)
  ELSE NoError

\* the normalized output a step returns for a successful response
SuccessOutput(s, raw) ==
  CASE s = "frame-extraction" -> FramesOutput(NormalizeFrames(raw))
    [] s = "logo-detection"   -> DetectionOutput
    [] s = "color-harmony"    -> HarmonyOutput
    [] OTHER                  -> ReportOutput(s)

\* the collaborator responses a step can receive
Responses(s) ==
  IF s = "frame-extraction" THEN RawFrameLists ELSE {<<>>}

\* the initial request, as a step's inputData or getInitData() gives it
InputData == [kind |-> "input", frames |-> <<>>, src |-> InputId]

\* where the body of a step's fetch takes its data from: the initial
\* request and the outputs of earlier steps
RequestSources(s) ==
  CASE s = "logo-detection" -> {InputId, "frame-extraction"}
    [] s = "color-harmony"  -> {InputId, "frame-extraction", "logo-detection"}
    [] s = "synthesizer"    -> {InputId, "overall-critic", "visual-style", "audio-analysis"}
    [] s = "advisor"        -> {InputId, "overall-critic", "synthesizer", "safety-ethics",
                                "message-clarity"}
    [] OTHER                -> {InputId}

\* body: JSON.stringify({ ... })
RequestBody(s, out) ==
  [src \in RequestSources(s) |-> IF src = InputId THEN InputData ELSE out[src]]

\* no fetch was issued
NoRequest == <<>>

(* ------------------------------ the engine ----------------------------- *)
HasFailed_Never(st) == FALSE

\* the parallel block fails when one of its steps failed
HasFailed(st) == \E s \in FanOutIds : st[s] = "failed"

\* error of the first failed step of the parallel block
RECURSIVE FirstFailedError(_, _, _)
FirstFailedError(st, err, i) ==
  IF i > Len(FanOut) THEN NoError
  ELSE IF st[FanOut[i]] = "failed" THEN err[FanOut[i]]
  ELSE FirstFailedError(st, err, i + 1)

StartRun_FirstOnly ==
  /\ runStatus' = "running"
  /\ runResult' = NullOutput
  /\ runError' = NoError
  /\ stepStatus' = [s \in StepIds |-> IF s = FanOut[1] THEN "running" ELSE "pending"]
  /\ stepOutput' = [s \in StepIds |-> NullOutput]
  /\ stepError' = [s \in StepIds |-> NoError]
  /\ executionSteps' = <<InputId>>
  /\ calls' = [s \in StepIds |-> IF s = FanOut[1] THEN 1 ELSE 0]
  /\ requests' = [s \in StepIds |->
                    IF s = FanOut[1] THEN RequestBody(s, stepOutput) ELSE NoRequest]
  /\ startedAt' = [s \in StepIds |-> IF s = FanOut[1] THEN now ELSE NoTime]
  /\ endedAt' = [s \in StepIds |-> NoTime]
  /\ now' = now + 1

\* run.start: the engine's step record starts with the run's input under
\* the key "input"; the six parallel steps are entered together, each
\* issuing its fetch; a step's record is added when the step settles
StartRun ==
  /\ runStatus' = "running"
  /\ runResult' = NullOutput
  /\ runError' = NoError
  /\ stepStatus' = [s \in StepIds |-> IF s \in FanOutIds THEN "running" ELSE "pending"]
  /\ stepOutput' = [s \in StepIds |-> NullOutput]
  /\ stepError' = [s \in StepIds |-> NoError]
  /\ executionSteps' = <<InputId>>
  /\ calls' = [s \in StepIds |-> IF s \in FanOutIds THEN 1 ELSE 0]
  /\ requests' = [s \in StepIds |->
                    IF s \in FanOutIds THEN RequestBody(s, stepOutput) ELSE NoRequest]
  /\ startedAt' = [s \in StepIds |-> IF s \in FanOutIds THEN now ELSE NoTime]
  /\ endedAt' = [s \in StepIds |-> NoTime]
  /\ now' = now + 1

\* the engine moves on after entry prev succeeded: the run ends after the
\* last step, else the mapping step runs and the next step executes up to
\* its fetch
Advance(prev, st, out, err, keys, en) ==
  LET nxt == NextInChain(prev) IN
  IF nxt = "none"
  THEN /\ runStatus' = "success"
       /\ runResult' = out["advisor"]
       /\ runError' = NoError
       /\ stepStatus' = st
       /\ stepOutput' = out
       /\ stepError' = err
       /\ executionSteps' = keys
       /\ calls' = calls
       /\ requests' = requests
       /\ startedAt' = startedAt
       /\ endedAt' = en
       /\ now' = now + 1
  ELSE LET keys2 == Append(keys, MappingKey(nxt))
           pre == Precheck(nxt, out, body)
       IN IF pre # NoError
          THEN /\ runStatus' = "failed"
               /\ runResult' = NullOutput
               /\ runError' = pre
               /\ stepStatus' = [st EXCEPT ![nxt] = "failed"]
               /\ stepOutput' = out
               /\ stepError' = [err EXCEPT ![nxt] = pre]
               /\ executionSteps' = Append(keys2, nxt)
               /\ calls' = calls
               /\ requests' = requests
               /\ startedAt' = [startedAt EXCEPT ![nxt] = now]
               /\ endedAt' = [en EXCEPT ![nxt] = now]
               /\ now' = now + 1
          ELSE /\ runStatus' = "running"
               /\ runResult' = NullOutput
               /\ runError' = NoError
               /\ stepStatus' = [st EXCEPT ![nxt] = "running"]
               /\ stepOutput' = out
               /\ stepError' = err
               /\ executionSteps' = keys2
               /\ calls' = [calls EXCEPT ![nxt] = @ + 1]
               /\ requests' = [requests EXCEPT ![nxt] = RequestBody(nxt, out)]
               /\ startedAt' = [startedAt EXCEPT ![nxt] = now]
               /\ endedAt' = en
               /\ now' = now + 1

CompleteFanOut_Resettle(s, ok, raw) ==
  /\ pc = "await_run"
  /\ runStatus = "running"
  /\ s \in FanOutIds
  /\ stepStatus' = [stepStatus EXCEPT ![s] = IF ok THEN "success" ELSE "failed"]
  /\ stepOutput' = [stepOutput EXCEPT ![s] = IF ok THEN SuccessOutput(s, raw) ELSE NullOutput]
  /\ stepError' = [stepError EXCEPT ![s] = IF ok THEN NoError ELSE AgentError]
  /\ executionSteps' = Append(executionSteps, s)
  /\ endedAt' = [endedAt EXCEPT ![s] = now]
  /\ now' = now + 1
  /\ UNCHANGED <<runStatus, runResult, runError, calls, requests, startedAt>>
  /\ UNCHANGED <<execVars, sideVars, body, pc, handlerVars>>

\* a parallel step's fetch resolves: the step records success with its
\* normalized output, or failed with the thrown message
CompleteFanOut(s, ok, raw) ==
  /\ pc = "await_run"
  /\ runStatus = "running"
  /\ s \in FanOutIds
  /\ stepStatus[s] = "running"
  /\ stepStatus' = [stepStatus EXCEPT ![s] = IF ok THEN "success" ELSE "failed"]
  /\ stepOutput' = [stepOutput EXCEPT ![s] = IF ok THEN SuccessOutput(s, raw) ELSE NullOutput]
  /\ stepError' = [stepError EXCEPT ![s] = IF ok THEN NoError ELSE AgentError]
  /\ executionSteps' = Append(executionSteps, s)
  /\ endedAt' = [endedAt EXCEPT ![s] = now]
  /\ now' = now + 1
  /\ UNCHANGED <<runStatus, runResult, runError, calls, requests, startedAt>>
  /\ UNCHANGED <<execVars, sideVars, body, pc, handlerVars>>

JoinFanOut_WaitsForSuccess ==
  /\ pc = "await_run"
  /\ runStatus = "running"
  /\ \A s \in FanOutIds : stepStatus[s] = "success"
  /\ stepStatus["logo-detection"] = "pending"
  /\ Advance("fan-out", stepStatus, stepOutput, stepError, executionSteps, endedAt)
  /\ UNCHANGED <<execVars, sideVars, body, pc, handlerVars>>

\* all six parallel steps have settled: a failed one fails the run, else
\* the pipeline moves on to logo-detection
JoinFanOut ==
  /\ pc = "await_run"
  /\ runStatus = "running"
  /\ \A s \in FanOutIds : stepStatus[s] \in {"success", "failed"}
  /\ stepStatus["logo-detection"] = "pending"
  /\ IF HasFailed(stepStatus)
     THEN /\ runStatus' = "failed"
          /\ runError' = FirstFailedError(stepStatus, stepError, 1)
          /\ UNCHANGED <<runResult, stepStatus, stepOutput, stepError, executionSteps, calls, requests>>
          /\ UNCHANGED <<now, startedAt, endedAt>>
     ELSE Advance("fan-out", stepStatus, stepOutput, stepError, executionSteps, endedAt)
  /\ UNCHANGED <<execVars, sideVars, body, pc, handlerVars>>

CompleteChain_Retry(s, ok) ==
  /\ pc = "await_run"
  /\ runStatus = "running"
  /\ s \in ChainIds
  /\ stepStatus[s] = "running"
  /\ IF ok
     THEN Advance(s, [stepStatus EXCEPT ![s] = "success"],
                  [stepOutput EXCEPT ![s] = SuccessOutput(s, <<>>)],
                  stepError, Append(executionSteps, s),
                  [endedAt EXCEPT ![s] = now])
     ELSE /\ calls' = [calls EXCEPT ![s] = @ + 1]
          /\ now' = now + 1
          /\ UNCHANGED <<runStatus, runError, stepStatus, stepError, executionSteps, endedAt>>
          /\ UNCHANGED <<runResult, stepOutput, startedAt, requests>>
  /\ UNCHANGED <<execVars, sideVars, body, pc, handlerVars>>

\* a chained step's fetch resolves
CompleteChain(s, ok) ==
  /\ pc = "await_run"
  /\ runStatus = "running"
  /\ s \in ChainIds
  /\ stepStatus[s] = "running"
  /\ IF ok
     THEN Advance(s, [stepStatus EXCEPT ![s] = "success"],
                  [stepOutput EXCEPT ![s] = SuccessOutput(s, <<>>)],
                  stepError, Append(executionSteps, s),
                  [endedAt EXCEPT ![s] = now])
     ELSE /\ runStatus' = "failed"
          /\ runError' = AgentError
          /\ stepStatus' = [stepStatus EXCEPT ![s] = "failed"]
          /\ stepError' = [stepError EXCEPT ![s] = AgentError]
          /\ executionSteps' = Append(executionSteps, s)
          /\ endedAt' = [endedAt EXCEPT ![s] = now]
          /\ now' = now + 1
          /\ UNCHANGED <<runResult, stepOutput, calls, requests, startedAt>>
  /\ UNCHANGED <<execVars, sideVars, body, pc, handlerVars>>

(* ------------------------- the handler's view -------------------------- *)
\* one entry of execution.steps: the run's input under "input", a mapping
\* step's record, or a declared step's record
EngineRecord(k) ==
  IF k = InputId
  THEN [id |-> k, status |-> Undefined, payload |-> Undefined,
        output |-> NullOutput, error |-> NoError,
        startedAt |-> NoTime, endedAt |-> NoTime]
  ELSE IF k \in MappingIds
  THEN LET s == CHOOSE c \in ChainIds : MappingKey(c) = k
       IN [id |-> k, status |-> "success", payload |-> "previous",
           output |-> MergedOutput(k), error |-> NoError,
           startedAt |-> startedAt[s], endedAt |-> startedAt[s]]
  ELSE [id |-> k, status |-> stepStatus[k],
        payload |-> IF k \in FanOutIds THEN "validation.data" ELSE "merged",
        output |-> stepOutput[k], error |-> stepError[k],
        startedAt |-> startedAt[k], endedAt |-> endedAt[k]]

\* Object.entries(execution.steps)
ExecutionEntries == [i \in 1..Len(executionSteps) |-> EngineRecord(executionSteps[i])]

\* new Date(ms).toISOString(): a string that Date.parse reads back
toISOString(ms) == <<"ISO-8601", ms>>

\* formatStep(id, step, validationData)
formatStep(step) ==
  [id |-> step.id,
   status |-> step.status,
   startedAt |-> IF step.startedAt # NoTime THEN toISOString(step.startedAt) ELSE NullIso,
   endedAt |-> IF step.endedAt # NoTime THEN toISOString(step.endedAt) ELSE NullIso,
   payload |-> IF step.payload = Undefined
               THEN (IF step.id \in (FanOutIds \ {"audio-analysis"}) \cup {"logo-detection"}
                     THEN "validation.data"
                     ELSE IF step.id \in {"synthesizer", "advisor"} THEN "combinedFrom"
                     ELSE "null")
               ELSE step.payload,
   output |-> step.output]

\* the synthetic record of the initial request
InputStep ==
  [id |-> InputId, status |-> "success",
   startedAt |-> toISOString(now), endedAt |-> toISOString(now),
   payload |-> "validation.data", output |-> NullOutput]

RECURSIVE FilterAndFormat(_, _)
FilterAndFormat(seq, i) ==
  IF i > Len(seq) THEN <<>>
  ELSE IF startsWithMap(seq[i].id) THEN FilterAndFormat(seq, i + 1)
  ELSE <<formatStep(seq[i])>> \o FilterAndFormat(seq, i + 1)

\* Object.entries(execution.steps).filter(([id]) => !id.startsWith("map"))
\*   .map(([id, step]) => formatStep(id, step, validation.data))
FormattedSteps == FilterAndFormat(ExecutionEntries, 1)

ExecutionFailed_Never(status) == FALSE

\* execution.status !== "success"
ExecutionFailed(status) == status # "success"

(* ------------------------------- events -------------------------------- *)
NoStep ==
  [id |-> "none", status |-> "none", startedAt |-> NullIso, endedAt |-> NullIso,
   payload |-> "null", output |-> NullOutput]

StepEvent(step) ==
  [type |-> "step", step |-> step, error |-> NoError, status |-> "none",
   detail |-> NoError, result |-> NullOutput, steps |-> <<>>]

CompleteEvent_NoSteps(status, result, steps) ==
  [type |-> "complete", step |-> NoStep, error |-> NoError, status |-> status,
   detail |-> NoError, result |-> result, steps |-> <<>>]

CompleteEvent(status, result, steps) ==
  [type |-> "complete", step |-> NoStep, error |-> NoError, status |-> status,
   detail |-> NoError, result |-> result, steps |-> steps]

\* details: execution carries the run's status, error and step record
FailedRunEvent(status, err, entries) ==
  [type |-> "error", step |-> NoStep, error |-> "Workflow failed to execute",
   status |-> status, detail |-> err, result |-> NullOutput, steps |-> entries]

ExceptionEvent(message) ==
  [type |-> "error", step |-> NoStep, error |-> "Workflow execution error",
   status |-> "none", detail |-> message, result |-> NullOutput, steps |-> <<>>]

StreamResponse == [NoResponse EXCEPT !.code = 200, !.kind = "event-stream"]

FailedRunResponse_NoSteps(status, err, entries) ==
  [NoResponse EXCEPT !.code = 500, !.kind = "json",
                     !.error = "Workflow failed to execute",
                     !.status = status, !.details = {err}]

\* the 500 answer of the buffered handler: details is the whole execution
FailedRunResponse(status, err, entries) ==
  [NoResponse EXCEPT !.code = 500, !.kind = "json",
                     !.error = "Workflow failed to execute",
                     !.status = status, !.details = {err}, !.steps = entries]

SuccessResponse_NoResult(status, result, steps) ==
  [NoResponse EXCEPT !.code = 200, !.kind = "json", !.status = status,
                     !.steps = steps]

SuccessResponse(status, result, steps) ==
  [NoResponse EXCEPT !.code = 200, !.kind = "json", !.status = status,
                     !.result = result, !.steps = steps]

\* an exception that leaves POST is answered by the framework
UnhandledResponse == [NoResponse EXCEPT !.code = 500, !.kind = "unhandled"]

(* ----------------------------- the handler ----------------------------- *)
\* safeParse: an invalid body is answered with 400 before anything else;
\* a valid one opens the stream when body.stream === true
Validate ==
  /\ pc = "validate"
  /\ IF ValidationIssues(body) # {}
     THEN /\ response' = ValidationErrorResponse(body)
          /\ pc' = "done"
     ELSE IF body.stream
     THEN /\ response' = StreamResponse
          /\ pc' = "send_input"
     ELSE /\ response' = response
          /\ pc' = "create_run"
  /\ UNCHANGED <<execVars, sideVars, body, channel, closed, toSend, engineVars>>

\* start(controller): the input step is sent first
SendInput ==
  /\ pc = "send_input"
  /\ channel' = Append(channel, StepEvent(InputStep))
  /\ pc' = "create_run"
  /\ UNCHANGED <<execVars, sideVars, body, response, closed, toSend, engineVars>>

\* createRunAsync() and run.start({ inputData })
CreateRun ==
  /\ pc = "create_run"
  /\ StartRun
  /\ pc' = "await_run"
  /\ UNCHANGED <<execVars, sideVars, body, handlerVars>>

\* createRunAsync() rejects: the stream's catch block takes over, the
\* buffered handler has none
CreateRunThrows ==
  /\ pc = "create_run"
  /\ IF body.stream
     THEN /\ pc' = "catch"
          /\ response' = response
     ELSE /\ pc' = "done"
          /\ response' = UnhandledResponse
  /\ UNCHANGED <<execVars, sideVars, body, channel, closed, toSend, engineVars>>

FailedRunNextPc_FallThrough == "send_steps"

\* the return that ends start(controller) after the error event
FailedRunNextPc == "done"

\* run.start resolves, stream: a run that is not success is reported with
\* one error event and the stream is closed; else the steps are formatted
StreamSettled ==
  /\ pc = "await_run"
  /\ body.stream
  /\ runStatus \in {"success", "failed"}
  /\ IF ExecutionFailed(runStatus)
     THEN /\ channel' = Append(channel, FailedRunEvent(runStatus, runError, ExecutionEntries))
          /\ closed' = TRUE
          /\ toSend' = toSend
          /\ pc' = FailedRunNextPc
     ELSE /\ toSend' = FormattedSteps
          /\ pc' = "send_steps"
          /\ UNCHANGED <<channel, closed>>
  /\ UNCHANGED <<execVars, sideVars, body, response, engineVars>>

\* for (const step of steps) sendStep(step)
SendStep ==
  /\ pc = "send_steps"
  /\ toSend # <<>>
  /\ channel' = Append(channel, StepEvent(Head(toSend)))
  /\ toSend' = Tail(toSend)
  /\ UNCHANGED <<execVars, sideVars, body, pc, response, closed, engineVars>>

\* sendComplete: the complete event, then controller.close()
SendComplete ==
  /\ pc = "send_steps"
  /\ toSend = <<>>
  /\ channel' = Append(channel,
        CompleteEvent(runStatus, runResult, <<InputStep>> \o FormattedSteps))
  /\ closed' = TRUE
  /\ pc' = "done"
  /\ UNCHANGED <<execVars, sideVars, body, response, toSend, engineVars>>

\* catch (error): one error event, then controller.close()
Catch ==
  /\ pc = "catch"
  /\ channel' = Append(channel, ExceptionEvent(EngineError))
  /\ closed' = TRUE
  /\ pc' = "done"
  /\ UNCHANGED <<execVars, sideVars, body, response, toSend, engineVars>>

\* run.start resolves, buffered: 500 with the execution for a run that is
\* not success, else the input step in front of the formatted steps
BufferedSettled ==
  /\ pc = "await_run"
  /\ ~body.stream
  /\ runStatus \in {"success", "failed"}
  /\ response' = IF ExecutionFailed(runStatus)
                  THEN FailedRunResponse(runStatus, runError, ExecutionEntries)
                  ELSE SuccessResponse(runStatus, runResult, <<InputStep>> \o FormattedSteps)
  /\ pc' = "done"
  /\ UNCHANGED <<execVars, sideVars, body, channel, closed, toSend, engineVars>>

(* ---------------------- one execute, in detail ------------------------- *)
\* a JSON value: its type, the number n / d it holds (d = 0 for NaN and
\* Infinity) and, for a string, its text
Val(t, n, d, s) == [t |-> t, n |-> n, d |-> d, s |-> s]

Absent == Val("undefined", 0, 1, "")
Null == Val("null", 0, 1, "")
Num(n) == Val("number", n, 1, "")
NaN == Val("number", 0, 0, "")
Infinity == Val("number", 1, 0, "")
Str(s) == Val("string", 0, 0, s)
DecimalStr(n) == Val("string", n, 1, "<decimal>")
False == Val("boolean", 0, 1, "")
EmptyList == Val("array", 0, 1, "")
Obj(s) == Val("object", 0, 1, s)

\* the object literal { dominant_colors: [], secondary_colors: [], color_count: 0 }
EmptyPalette == Obj("empty-palette")

\* the whole response body, used where it has no report field
WholePayload == Obj("payload")

\* a nested detection object
DetectionObject == Obj("detection")

\* an object without fields
EmptyObject == <<>>

\* obj.f, undefined where obj has no such field
Get(obj, f) == IF f \in DOMAIN obj THEN obj[f] ELSE Absent

Nullish(v) == v.t \in {"undefined", "null"}

Coalesce_KeepsLeft(a, b) == a

\* a ?? b
Coalesce(a, b) == IF Nullish(a) THEN b ELSE a

Truthy_Always(v) == TRUE

\* Boolean(v)
Truthy(v) ==
  /\ ~Nullish(v)
  /\ ~(v.t = "boolean" /\ v.n = 0)
  /\ ~(v.t = "number" /\ v.n = 0)
  /\ ~(v.t = "string" /\ v.s = "")

\* Number.isFinite(v), for a number
IsFinite(v) == v.d # 0

RECURSIVE Gcd(_, _)
Gcd(a, b) == IF b = 0 THEN a ELSE Gcd(b, a % b)

\* a / b for finite non-negative numbers: division by zero gives NaN for
\* 0 / 0 and Infinity otherwise
Div(a, b) ==
  LET num == a.n * b.d
      den == a.d * b.n
  IN IF den = 0
     THEN (IF num = 0 THEN NaN ELSE Infinity)
     ELSE Val("number", num \div Gcd(num, den), den \div Gcd(num, den), "")

\* Number.parseFloat(v), for a string
parseFloat(v) == IF v.s = "<decimal>" THEN Val("number", v.n, v.d, "") ELSE NaN

\* normalizeNumber(value, fallback)
normalizeNumber(value, fallback) ==
  IF value.t = "number" /\ IsFinite(value) THEN value
  ELSE IF value.t = "string" /\ IsFinite(parseFloat(value)) THEN parseFloat(value)
  ELSE fallback

DefaultExtractionRate == 2

\* one output field: its second accepted spelling and its fallback
Chain1(default) == [alt |-> "", default |-> default]
Chain2(alt, default) == [alt |-> alt, default |-> default]

\* return { report, prompt, warnings } of the report steps
ReportChains ==
  [report |-> Chain1(WholePayload), prompt |-> Chain1(Str("")),
   warnings |-> Chain1(EmptyList)]

\* advisorStep adds validationPrompt
AdvisorChains ==
  [report |-> Chain1(WholePayload), prompt |-> Chain1(Str("")),
   validationPrompt |-> Chain1(Str("")), warnings |-> Chain1(EmptyList)]

\* the fields beside frames that frameExtractionStep returns
FrameExtractionChains ==
  [total_frames_extracted |-> Chain2("totalFramesExtracted", Num(0)),
   video_duration |-> Chain2("videoDuration", Num(0)),
   video_fps |-> Chain2("videoFps", Num(0)),
   extraction_rate |-> Chain2("extractionRate", Num(DefaultExtractionRate)),
   warnings |-> Chain1(EmptyList)]

\* normalizeDetection
DetectionChains ==
  [frame_number |-> Chain2("frameNumber", Num(0)),
   timestamp |-> Chain1(Num(0)),
   method |-> Chain1(Str("")),
   confidence |-> Chain1(Num(0)),
   bounding_box |-> Chain2("boundingBox", Null),
   crop_image_base64 |-> Chain2("cropImageBase64", Null),
   notes |-> Chain1(Null)]

\* the fields beside detections that logoDetectionStep returns
LogoDetectionChains ==
  [logo_found |-> Chain2("logoFound", False),
   primary_detection |-> Chain2("primaryDetection", Null),
   method_used |-> Chain2("methodUsed", Null),
   warnings |-> Chain1(EmptyList),
   notes |-> Chain1(Null)]

ColorHarmonyChains ==
  [overall_score |-> Chain2("overallScore", Num(0)),
   logo_colors |-> Chain2("logoColors", Null),
   frame_colors |-> Chain2("frameColors", EmptyPalette),
   brand_logo_colors |-> Chain2("brandLogoColors", EmptyPalette),
   color_alignment_score |-> Chain2("colorAlignmentScore", Num(0)),
   analysis |-> Chain1(Str("")),
   recommendations |-> Chain1(EmptyList),
   warnings |-> Chain1(EmptyList)]

Chains(step) ==
  IF step = "frame-extraction" THEN FrameExtractionChains
  ELSE IF step = "logo-detection" THEN LogoDetectionChains
  ELSE IF step = "color-harmony" THEN ColorHarmonyChains
  ELSE IF step = "advisor" THEN AdvisorChains
  ELSE ReportChains

\* obj.f ?? obj.alt ?? default, for every field f of the table
ApplyChains(ch, obj) ==
  [f \in DOMAIN ch |->
     Coalesce(Get(obj, f), Coalesce(Get(obj, ch[f].alt), ch[f].default))]

\* normalizeDetection(detection)
normalizeDetection(detection) == ApplyChains(DetectionChains, detection)

\* the image of a raw frame: the first of image_base64, imageBase64, image
\* that is a string, else ""
imageBase64(frame) ==
  IF Get(frame, "image_base64").t = "string" THEN Get(frame, "image_base64")
  ELSE IF Get(frame, "imageBase64").t = "string" THEN Get(frame, "imageBase64")
  ELSE IF Get(frame, "image").t = "string" THEN Get(frame, "image")
  ELSE Str("")

\* the callback of payload.frames.map, index counted from 0
normalizeFrame(frame, index, extractionRate) ==
  [frame_number |->
     normalizeNumber(Coalesce(Get(frame, "frame_number"), Get(frame, "frameNumber")),
                     Num(index)),
   timestamp |->
     normalizeNumber(Coalesce(Get(frame, "timestamp"), Get(frame, "time")),
                     Div(Num(index), extractionRate)),
   image_base64 |-> imageBase64(frame)]

\* payload.frames.map(...).filter((frame) => Boolean(frame.image_base64))
RECURSIVE mapFilterFrames(_, _, _)
mapFilterFrames(frames, i, extractionRate) ==
  IF i > Len(frames) THEN <<>>
  ELSE LET frame == normalizeFrame(frames[i], i - 1, extractionRate)
       IN (IF Truthy(frame.image_base64) THEN <<frame>> ELSE <<>>)
          \o mapFilterFrames(frames, i + 1, extractionRate)

\* a response body, or a returned output: the fields of the object, the
\* elements of its list (frames or detections, isArray false where the field
\* is not an array) and its nested primary detection
Payload(top, items, isArray, nested) ==
  [top |-> top, items |-> items, isArray |-> isArray, nested |-> nested]

NoPayload == Payload(EmptyObject, <<>>, FALSE, EmptyObject)

\* return { ... } of a report step and of colorHarmonyStep
NormalizeFields(step, payload) ==
  Payload(ApplyChains(Chains(step), payload.top), <<>>, FALSE, EmptyObject)

\* return { frames, ..., extraction_rate: extractionRate, ... } of
\* frameExtractionStep
NormalizeFrameExtraction(payload) ==
  LET extractionRate ==
        normalizeNumber(Coalesce(Get(payload.top, "extraction_rate"),
                                 Get(payload.top, "extractionRate")),
                        Num(DefaultExtractionRate))
      frames == IF payload.isArray
                THEN mapFilterFrames(payload.items, 1, extractionRate)
                ELSE <<>>
  IN Payload([ApplyChains(FrameExtractionChains, payload.top)
                EXCEPT !["extraction_rate"] = extractionRate],
             frames, TRUE, EmptyObject)

\* return normalized of logoDetectionStep
NormalizeLogoDetection(payload) ==
  LET primaryRaw ==
        Coalesce(Get(payload.top, "primary_detection"),
                 Coalesce(Get(payload.top, "primaryDetection"), Null))
      detections ==
        IF payload.isArray
        THEN [i \in 1..Len(payload.items) |-> normalizeDetection(payload.items[i])]
        ELSE <<>>
  IN Payload([ApplyChains(LogoDetectionChains, payload.top)
                EXCEPT !["primary_detection"] =
                  IF Truthy(primaryRaw) THEN DetectionObject ELSE Null],
             detections, TRUE,
             IF Truthy(primaryRaw)
             THEN normalizeDetection(IF primaryRaw = DetectionObject
                                     THEN payload.nested ELSE EmptyObject)
             ELSE EmptyObject)

\* what execute returns for a 2xx response with this body
Normalize(step, payload) ==
  IF step = "frame-extraction" THEN NormalizeFrameExtraction(payload)
  ELSE IF step = "logo-detection" THEN NormalizeLogoDetection(payload)
  ELSE NormalizeFields(step, payload)

\* let message = "Failed to execute ... agent"
GenericMessage(step) ==
  Str(CASE step = "safety-ethics" -> "Failed to execute safety and ethics agent"
        [] step = "message-clarity" -> "Failed to execute message clarity agent"
        [] step = "advisor" -> "Failed to execute advisor agent"
        [] step = "overall-critic" -> "Failed to execute overall critic agent"
        [] step = "visual-style" -> "Failed to execute visual style agent"
        [] step = "frame-extraction" -> "Failed to execute frame extraction agent"
        [] step = "logo-detection" -> "Failed to execute logo detection agent"
        [] step = "color-harmony" -> "Failed to execute color harmony agent"
        [] step = "synthesizer" -> "Failed to execute synthesizer agent"
        [] step = "audio-analysis" -> "Failed to execute audio analysis agent")

\* the message of the Error thrown for a response that is not ok: the
\* generic message stays when response.json() throws
ErrorMessage(step, reply) ==
  IF ~reply.parseable THEN GenericMessage(step)
  ELSE Coalesce(Get(reply.payload.top, "detail"),
                Coalesce(Get(reply.payload.top, "error"),
                         Coalesce(reply.statusText, GenericMessage(step))))

(* inputs *)
MaxDetections == 1

\* values a collaborator may put in a field
ProbeVals == {Absent, Null, Num(0), Str("x"), DecimalStr(1)}

\* response.statusText is a string, empty where the server sends no
\* reason phrase
StatusTexts == {Str(""), Str("Internal Server Error")}

FieldNames(ch) == DOMAIN ch \cup ({ch[f].alt : f \in DOMAIN ch} \ {""})

\* bodies that give one field every pair of values under its two spellings,
\* the other fields all omitted or all given
Tops(ch) ==
  {[g \in FieldNames(ch) |->
      IF g = f THEN a ELSE IF g = ch[f].alt THEN b ELSE rest] :
     f \in DOMAIN ch, a \in ProbeVals, b \in ProbeVals, rest \in {Absent, Num(1)}}

\* raw frames: without fields, with an image only, canonical, in the other
\* spelling with a decimal string, and with an empty image_base64
RawFrame(number, time, image) ==
  [frame_number |-> number[1], frameNumber |-> number[2],
   timestamp |-> time[1], time |-> time[2],
   image_base64 |-> image[1], imageBase64 |-> image[2], image |-> image[3]]

RawFrames ==
  {RawFrame(<<Absent, Absent>>, <<Absent, Absent>>, <<Absent, Absent, Absent>>),
   RawFrame(<<Absent, Absent>>, <<Absent, Absent>>, <<Absent, Absent, Str("x")>>),
   RawFrame(<<Num(1), Absent>>, <<Num(1), Absent>>, <<Str("x"), Absent, Absent>>),
   RawFrame(<<Absent, DecimalStr(1)>>, <<Absent, Str("soon")>>, <<Absent, Str("x"), Absent>>),
   RawFrame(<<Absent, Absent>>, <<Absent, Absent>>, <<Str(""), Str("x"), Absent>>)}

\* raw detections: without fields, and in the other spelling
RawDetections ==
  {[g \in FieldNames(DetectionChains) |-> Absent],
   [g \in FieldNames(DetectionChains) |->
      IF g = "frameNumber" THEN Num(1)
      ELSE IF g = "boundingBox" THEN Obj("box")
      ELSE IF g = "confidence" THEN Num(1)
      ELSE Absent]}

\* bodies whose primary detection is an object, under either spelling
PrimaryTops ==
  {[g \in FieldNames(LogoDetectionChains) |-> IF g = f THEN DetectionObject ELSE Absent] :
     f \in {"primary_detection", "primaryDetection"}}

RECURSIVE Lists(_, _)
Lists(S, n) ==
  IF n = 0 THEN {<<>>}
  ELSE Lists(S, n - 1) \cup {Append(l, x) : l \in {m \in Lists(S, n - 1) : Len(m) = n - 1}, x \in S}

\* 2xx bodies of a step
Payloads(step) ==
  IF step = "frame-extraction"
  THEN {Payload(top, items, TRUE, EmptyObject) :
          top \in Tops(FrameExtractionChains), items \in Lists(RawFrames, MaxFrames)}
       \cup {Payload(top, <<>>, FALSE, EmptyObject) : top \in Tops(FrameExtractionChains)}
  ELSE IF step = "logo-detection"
  THEN {Payload(top, items, TRUE, nested) :
          top \in Tops(LogoDetectionChains) \cup PrimaryTops,
          items \in Lists(RawDetections, MaxDetections),
          nested \in RawDetections}
       \cup {Payload(top, <<>>, FALSE, EmptyObject) : top \in Tops(LogoDetectionChains)}
  ELSE {Payload(top, <<>>, FALSE, EmptyObject) : top \in Tops(Chains(step))}

\* bodies of a response that is not ok
ErrorPayloads ==
  {Payload([detail |-> d, error |-> e], <<>>, FALSE, EmptyObject) :
     d \in {Absent, Null, Str("detail text")}, e \in {Absent, Null, Str("error text")}}

Reply(ok, parseable, statusText, payload) ==
  [ok |-> ok, parseable |-> parseable, statusText |-> statusText, payload |-> payload]

NoReply == Reply(TRUE, TRUE, Str(""), NoPayload)

Replies(step) ==
  {Reply(TRUE, TRUE, Str("OK"), p) : p \in Payloads(step)}
  \cup {Reply(FALSE, parseable, statusText, p) :
          parseable \in BOOLEAN, statusText \in StatusTexts, p \in ErrorPayloads}

\* the inputData of an execute: the kept frames of frame-extraction and
\* the brand fields of the initial request
Input(frames, logo, company, product) ==
  [frames |-> frames, brandLogoBase64 |-> logo,
   companyName |-> company, productName |-> product]

\* what the validated request and a frame-extraction output with a frame
\* give every step
UsualInput == Input(<<0>>, Data, Data, Data)

\* logoDetectionStep.execute taken by itself can be handed any inputData
Inputs(step) ==
  IF step = "logo-detection"
  THEN {Input([i \in 1..n |-> i - 1], logo, company, product) :
          n \in 0..MaxFrames, logo \in FieldVals,
          company \in FieldVals, product \in FieldVals}
  ELSE {UsualInput}

\* what execute throws in front of its fetch
InputError(step, input) ==
  IF step = "logo-detection"
  THEN LogoDetectionPrecheck(input.frames, input.brandLogoBase64,
                             input.companyName, input.productName)
  ELSE NoError

(* execute *)
\* a precondition check throws: no fetch is issued
PrecheckThrows ==
  /\ xpc = "start"
  /\ InputError(xStep, xInput) # NoError
  /\ xThrown' = Str(InputError(xStep, xInput))
  /\ xpc' = "thrown"
  /\ UNCHANGED <<xStep, xInput, xCalls, xReply, xResult, xAgain>>
  /\ UNCHANGED <<mainVars, sideVars>>

\* await fetch(...)
Fetch ==
  /\ xpc = "start"
  /\ InputError(xStep, xInput) = NoError
  /\ xCalls' = xCalls + 1
  /\ xpc' = "fetch"
  /\ UNCHANGED <<xStep, xInput, xReply, xResult, xAgain, xThrown>>
  /\ UNCHANGED <<mainVars, sideVars>>

\* the response is not ok: execute throws
ExecuteThrows ==
  /\ xpc = "fetch"
  /\ ~xReply.ok
  /\ xThrown' = ErrorMessage(xStep, xReply)
  /\ xpc' = "thrown"
  /\ UNCHANGED <<xStep, xInput, xCalls, xReply, xResult, xAgain>>
  /\ UNCHANGED <<mainVars, sideVars>>

\* the response is ok: execute returns the normalized body
ExecuteReturns ==
  /\ xpc = "fetch"
  /\ xReply.ok
  /\ xResult' = Normalize(xStep, xReply.payload)
  /\ xpc' = "returned"
  /\ UNCHANGED <<xStep, xInput, xCalls, xReply, xAgain, xThrown>>
  /\ UNCHANGED <<mainVars, sideVars>>

\* the returned output is given to the same normalizer as a response body
Renormalize ==
  /\ xpc = "returned"
  /\ xAgain' = Normalize(xStep, xResult)
  /\ xpc' = "renormalized"
  /\ UNCHANGED <<xStep, xInput, xCalls, xReply, xResult, xThrown>>
  /\ UNCHANGED <<mainVars, sideVars>>

(* ------------------- generateVideoWithVeo3's polling -------------------- *)
\* const maxPolls = 60
maxPolls == 60

ContinuePolling_OffByOne(done, count) == ~done /\ count <= maxPolls

\* while (!operation.done && pollCount < maxPolls)
ContinuePolling(done, count) == ~done /\ count < maxPolls

\* ai.models.generateVideos(...) resolves with an operation, done or not
GenerateVideos(done) ==
  /\ vpc = "generate"
  /\ operationDone' = done
  /\ vpc' = "loop"
  /\ UNCHANGED <<pollCount, polls>>
  /\ UNCHANGED otherThanPoll

\* prepareReferenceImages or ai.models.generateVideos throws
GenerateThrows ==
  /\ vpc = "generate"
  /\ vpc' = "threw"
  /\ UNCHANGED <<operationDone, pollCount, polls>>
  /\ UNCHANGED otherThanPoll

\* one turn of the loop: the wait, then getVideosOperation and pollCount++
Poll(done) ==
  /\ vpc = "loop"
  /\ ContinuePolling(operationDone, pollCount)
  /\ polls' = polls + 1
  /\ operationDone' = done
  /\ pollCount' = pollCount + 1
  /\ UNCHANGED vpc
  /\ UNCHANGED otherThanPoll

\* getVideosOperation throws inside the loop
PollThrows ==
  /\ vpc = "loop"
  /\ ContinuePolling(operationDone, pollCount)
  /\ polls' = polls + 1
  /\ vpc' = "threw"
  /\ UNCHANGED <<operationDone, pollCount>>
  /\ UNCHANGED otherThanPoll

\* the loop ends: the timeout error for an operation that is not done, else
\* the video is fetched
EndPolling ==
  /\ vpc = "loop"
  /\ ~ContinuePolling(operationDone, pollCount)
  /\ vpc' = IF ~operationDone THEN "timed-out" ELSE "download"
  /\ UNCHANGED <<operationDone, pollCount, polls>>
  /\ UNCHANGED otherThanPoll

PollIdle ==
  /\ vpc = "idle"
  /\ operationDone = FALSE
  /\ pollCount = 0
  /\ polls = 0

(* ----------------------- the generate_add handler ----------------------- *)
RequiredAdFields == {"companyName", "productName", "brandLogo", "productImage", "briefPrompt"}

\* bodies of a generate_add request: at most one required field is
\* missing; aspectRatio is absent, supported or not; validatePrompt is
\* absent, false or true
AdBodies ==
  [missing : RequiredAdFields \cup {"none"},
   aspectRatio : {"absent", "16:9", "2:1"},
   validatePrompt : {"absent", "false", "true"}]

\* SUPPORTED_ASPECT_RATIOS.includes(body.aspectRatio || "16:9")
SupportedAspectRatio(b) == b.aspectRatio \in {"absent", "16:9", "9:16", "1:1", "4:3", "21:9"}

ReviewRequested_Never(b) == FALSE

\* if (body.validatePrompt)
ReviewRequested(b) == b.validatePrompt = "true"

AdResponse(code, status, error, prompt, video) ==
  [code |-> code, status |-> status, error |-> error, prompt |-> prompt, video |-> video]

NoAdResponse == AdResponse(0, "none", "none", FALSE, FALSE)

\* the two checks in front of the prompt generation
AdValidate ==
  /\ apc = "validate"
  /\ IF adBody.missing # "none"
     THEN /\ adResponse' = AdResponse(400, "none", "Missing required fields", FALSE, FALSE)
          /\ apc' = "done"
     ELSE IF ~SupportedAspectRatio(adBody)
     THEN /\ adResponse' = AdResponse(400, "none", "Invalid aspect ratio", FALSE, FALSE)
          /\ apc' = "done"
     ELSE /\ adResponse' = adResponse
          /\ apc' = "prompt"
  /\ UNCHANGED <<adBody, promptGenerated, videoCalls>>
  /\ UNCHANGED otherThanAd

\* generateVeo3Prompt resolves or throws; a requested review ends the
\* request with the prompt, else generateVideoWithVeo3 is called
PromptGenerated(ok) ==
  /\ apc = "prompt"
  /\ promptGenerated' = ok
  /\ IF ~ok
     THEN /\ adResponse' = AdResponse(500, "none", "Failed to generate ad", FALSE, FALSE)
          /\ apc' = "done"
          /\ videoCalls' = videoCalls
     ELSE IF ReviewRequested(adBody)
     THEN /\ adResponse' = AdResponse(200, "pending_validation", "none", TRUE, FALSE)
          /\ apc' = "done"
          /\ videoCalls' = videoCalls
     ELSE /\ adResponse' = adResponse
          /\ apc' = "video"
          /\ videoCalls' = [videoCalls EXCEPT !.generate = @ + 1]
  /\ UNCHANGED adBody
  /\ UNCHANGED otherThanAd

\* generateVideoWithVeo3 resolves or throws
VideoGenerated(ok) ==
  /\ apc = "video"
  /\ adResponse' = IF ok THEN AdResponse(200, "none", "none", TRUE, TRUE)
                   ELSE AdResponse(500, "none", "Failed to generate video", FALSE, FALSE)
  /\ apc' = "done"
  /\ UNCHANGED <<adBody, promptGenerated, videoCalls>>
  /\ UNCHANGED otherThanAd

\* the client confirms the prompt it was given for review: the confirm
\* handler finds its required fields and calls generateVideoWithVeo3
Confirm ==
  /\ apc = "done"
  /\ adResponse.status = "pending_validation"
  /\ apc' = "confirm-video"
  /\ videoCalls' = [videoCalls EXCEPT !.confirm = @ + 1]
  /\ UNCHANGED <<adBody, adResponse, promptGenerated>>
  /\ UNCHANGED otherThanAd

\* generateVideoWithVeo3 resolves or throws in the confirm handler
ConfirmVideoGenerated(ok) ==
  /\ apc = "confirm-video"
  /\ adResponse' = IF ok THEN AdResponse(200, "none", "none", TRUE, TRUE)
                   ELSE AdResponse(500, "none", "Failed to generate video", FALSE, FALSE)
  /\ apc' = "confirmed"
  /\ UNCHANGED <<adBody, promptGenerated, videoCalls>>
  /\ UNCHANGED otherThanAd

AdIdle ==
  /\ apc = "idle"
  /\ adBody = [missing |-> "none", aspectRatio |-> "absent", validatePrompt |-> "absent"]
  /\ adResponse = NoAdResponse
  /\ promptGenerated = FALSE
  /\ videoCalls = [generate |-> 0, confirm |-> 0]

(* ---------------- BrandWorkflowRunner's handleSubmit ------------------- *)
MaxStepEvents == 2

\* the ids createPlaceholderSteps lists
PlaceholderSteps ==
  {"input", "overall-critic", "visual-style", "frame-extraction",
   "logo-detection", "color-harmony", "synthesizer"}

\* the ids a step event or a final result may carry
UiSteps == PlaceholderSteps \cup {"advisor"}

\* a workflow result on display: its status and, for every id, the status
\* of the step in its list ("absent" where the list has no such step)
UiResult(status, steps) == [status |-> status, steps |-> steps]

\* setWorkflowResult(null)
NullResult == UiResult("null", [id \in UiSteps |-> "absent"])

\* setWorkflowResult({ status: "running", result: null, steps: initialSteps })
InitialResult ==
  UiResult("running",
           [id \in UiSteps |->
              IF id = "input" THEN "success"
              ELSE IF id \in {"overall-critic", "visual-style", "frame-extraction"}
              THEN "running"
              ELSE IF id \in PlaceholderSteps THEN "pending"
              ELSE "absent"])

\* the data of a complete event, and the body of a response that is not
\* streamed: the result of a finished run
FinalResult == UiResult("success", [id \in UiSteps |-> "success"])

\* a server-sent event; status is the status of the step of a step event
UiEvent(type, id, status) == [type |-> type, id |-> id, status |-> status]

StepEvents ==
  {UiEvent("step", id, status) :
     id \in {"overall-critic", "frame-extraction", "advisor"},
     status \in {"success", "failed"}}

UiCompleteEvent == UiEvent("complete", "none", "success")

UiErrorEvent == UiEvent("error", "none", "failed")

\* an event whose JSON does not parse
GarbledEvent == UiEvent("garbled", "none", "none")

\* what the stream carries: step events, then nothing more (the connection
\* is cut), a complete event or an error event
Streams ==
  {steps \o last :
     steps \in Lists(StepEvents \cup {GarbledEvent}, MaxStepEvents),
     last \in {<<>>, <<UiCompleteEvent>>, <<UiErrorEvent>>}}

\* the synthesizer step of the final result, else its first step
ExpandedStep(result) ==
  IF result.steps["synthesizer"] # "absent" THEN "synthesizer" ELSE "input"

\* the body of for (const line of lines) for one event: the display after
\* it and whether handleSubmit returned. What JSON.parse throws for a
\* garbled event and what the error branch throws are both caught by the
\* catch around the event's handling, which warns and goes on
HandleEvent(ui, event) ==
  IF event.type = "step"
  THEN [ui EXCEPT !.result =
          IF @.status = "null" THEN @
          ELSE [@ EXCEPT !.steps[event.id] = event.status]]
  ELSE IF event.type = "complete"
  THEN [ui EXCEPT !.result = FinalResult,
                  !.expanded = ExpandedStep(FinalResult),
                  !.loading = FALSE,
                  !.returned = TRUE]
  ELSE ui

\* the events of one chunk, in order, up to a return
RECURSIVE HandleEvents(_, _)
HandleEvents(ui, events) ==
  IF events = <<>> \/ ui.returned THEN ui
  ELSE HandleEvents(HandleEvent(ui, Head(events)), Tail(events))

\* handleSubmit up to the fetch
Submit ==
  /\ upc = "idle"
  /\ IF ~canSubmit
     THEN /\ uiError' = "Please provide all required fields before running the workflow."
          /\ upc' = "done"
          /\ UNCHANGED <<loading, workflowResult>>
     ELSE /\ loading' = TRUE
          /\ uiError' = "null"
          /\ workflowResult' = NullResult
          /\ upc' = "fetch"
  /\ UNCHANGED <<canSubmit, uiReply, uiStream, delivered, expandedStepId>>
  /\ UNCHANGED otherThanUi

\* the fetch settles: rejected, not ok, not streamed, streamed without a
\* body, or streamed
Respond ==
  /\ upc = "fetch"
  /\ CASE uiReply = "rejected" ->
            /\ uiError' = "Failed to fetch"
            /\ loading' = FALSE
            /\ upc' = "done"
            /\ UNCHANGED <<workflowResult, expandedStepId>>
       [] uiReply = "not-ok" ->
            /\ uiError' = "Workflow execution failed"
            /\ loading' = FALSE
            /\ upc' = "done"
            /\ UNCHANGED <<workflowResult, expandedStepId>>
       [] uiReply = "json" ->
            /\ workflowResult' = FinalResult
            /\ expandedStepId' = ExpandedStep(FinalResult)
            /\ loading' = FALSE
            /\ upc' = "done"
            /\ UNCHANGED uiError
       [] uiReply = "no-body" ->
            /\ uiError' = "Streaming response body is not available"
            /\ loading' = FALSE
            /\ upc' = "done"
            /\ UNCHANGED <<workflowResult, expandedStepId>>
       [] uiReply = "stream" ->
            /\ workflowResult' = InitialResult
            /\ upc' = "read"
            /\ UNCHANGED <<uiError, loading, expandedStepId>>
  /\ UNCHANGED <<canSubmit, uiReply, uiStream, delivered>>
  /\ UNCHANGED otherThanUi

\* reader.read() gives a chunk of n whole events, which are handled in order
Read(n) ==
  /\ upc = "read"
  /\ n <= Len(uiStream)
  /\ LET chunk == SubSeq(uiStream, 1, n)
         ui == HandleEvents([result |-> workflowResult, expanded |-> expandedStepId,
                             loading |-> loading, returned |-> FALSE],
                            chunk)
     IN /\ workflowResult' = ui.result
        /\ expandedStepId' = ui.expanded
        /\ uiError' = uiError
        /\ loading' = ui.loading
        /\ upc' = IF ui.returned THEN "done" ELSE "read"
        /\ delivered' = delivered \cup {chunk[i].type : i \in 1..n}
  /\ uiStream' = SubSeq(uiStream, n + 1, Len(uiStream))
  /\ UNCHANGED <<canSubmit, uiReply>>
  /\ UNCHANGED otherThanUi

\* reader.read() gives done: the loop is left and finally runs
ReadDone ==
  /\ upc = "read"
  /\ uiStream = <<>>
  /\ loading' = FALSE
  /\ upc' = "done"
  /\ UNCHANGED <<canSubmit, uiReply, uiStream, delivered, uiError, workflowResult, expandedStepId>>
  /\ UNCHANGED otherThanUi

UiIdle ==
  /\ upc = "unmounted"
  /\ canSubmit = FALSE
  /\ uiReply = "rejected"
  /\ uiStream = <<>>
  /\ delivered = {}
  /\ loading = FALSE
  /\ uiError = "null"
  /\ workflowResult = NullResult
  /\ expandedStepId = "null"

(* --------------------------- specification ----------------------------- *)
Bodies ==
  [videoBase64 : FieldVals, brandLogoBase64 : FieldVals,
   companyName : FieldVals, productName : FieldVals, stream : BOOLEAN]

\* POST before its first statement
HandlerInit ==
  /\ pc = "validate"
  /\ response = NoResponse
  /\ channel = <<>>
  /\ closed = FALSE
  /\ toSend = <<>>
  /\ runStatus = "none"
  /\ runResult = NullOutput
  /\ runError = NoError
  /\ stepStatus = [s \in StepIds |-> "pending"]
  /\ stepOutput = [s \in StepIds |-> NullOutput]
  /\ stepError = [s \in StepIds |-> NoError]
  /\ executionSteps = <<>>
  /\ calls = [s \in StepIds |-> 0]
  /\ requests = [s \in StepIds |-> NoRequest]
  /\ now = 0
  /\ startedAt = [s \in StepIds |-> NoTime]
  /\ endedAt = [s \in StepIds |-> NoTime]

\* no execute is looked at by itself
ExecIdle ==
  /\ xStep = "none"
  /\ xInput = UsualInput
  /\ xCalls = 0
  /\ xReply = NoReply
  /\ xResult = NoPayload
  /\ xAgain = NoPayload
  /\ xThrown = Absent
  /\ xpc = "idle"

SideIdle == PollIdle /\ AdIdle /\ UiIdle

Init ==
  /\ body \in Bodies
  /\ HandlerInit
  /\ ExecIdle
  /\ SideIdle

Next ==
  \/ Validate
  \/ SendInput
  \/ CreateRun
  \/ CreateRunThrows
  \/ \E s \in FanOutIds, ok \in BOOLEAN : \E raw \in Responses(s) : CompleteFanOut(s, ok, raw)
  \/ JoinFanOut
  \/ \E s \in ChainIds, ok \in BOOLEAN : CompleteChain(s, ok)
  \/ StreamSettled
  \/ SendStep
  \/ SendComplete
  \/ Catch
  \/ BufferedSettled

Spec == Init /\ [][Next]_vars

\* the frame responses that matter to how a run ends: no frame kept, or one
EndToEndResponses(s) ==
  IF s = "frame-extraction" THEN {<<>>, <<WithImage>>} ELSE Responses(s)

FairNext ==
  \/ Validate
  \/ SendInput
  \/ CreateRun
  \/ CreateRunThrows
  \/ \E s \in FanOutIds, ok \in BOOLEAN : \E raw \in EndToEndResponses(s) : CompleteFanOut(s, ok, raw)
  \/ JoinFanOut
  \/ \E s \in ChainIds, ok \in BOOLEAN : CompleteChain(s, ok)
  \/ StreamSettled
  \/ SendStep
  \/ SendComplete
  \/ Catch
  \/ BufferedSettled

\* every collaborator call resolves and the handler's continuations run:
\* a step that can be taken is eventually taken
FairSpec == Init /\ [][FairNext]_vars /\ WF_vars(FairNext)

\* one execute of one step, for every response of its collaborator
ValidBody ==
  [videoBase64 |-> Data, brandLogoBase64 |-> Data,
   companyName |-> Data, productName |-> Data, stream |-> FALSE]

ExecInit ==
  /\ body = ValidBody
  /\ HandlerInit
  /\ xStep \in StepIds
  /\ xInput \in Inputs(xStep)
  /\ xCalls = 0
  /\ xReply \in IF InputError(xStep, xInput) = NoError THEN Replies(xStep) ELSE {NoReply}
  /\ xResult = NoPayload
  /\ xAgain = NoPayload
  /\ xThrown = Absent
  /\ xpc = "start"
  /\ SideIdle

ExecNext ==
  \/ PrecheckThrows
  \/ Fetch
  \/ ExecuteThrows
  \/ ExecuteReturns
  \/ Renormalize

ExecSpec == ExecInit /\ [][ExecNext]_vars

\* one call of generateVideoWithVeo3, for every answer of the video service
PollInit ==
  /\ body = ValidBody
  /\ HandlerInit
  /\ ExecIdle
  /\ vpc = "generate"
  /\ operationDone = FALSE
  /\ pollCount = 0
  /\ polls = 0
  /\ AdIdle
  /\ UiIdle

PollNext ==
  \/ \E done \in BOOLEAN : GenerateVideos(done)
  \/ GenerateThrows
  \/ \E done \in BOOLEAN : Poll(done)
  \/ PollThrows
  \/ EndPolling

PollSpec == PollInit /\ [][PollNext]_vars

\* one generate_add request, and the confirm request that may follow it
AdInit ==
  /\ body = ValidBody
  /\ HandlerInit
  /\ ExecIdle
  /\ PollIdle
  /\ UiIdle
  /\ apc = "validate"
  /\ adBody \in AdBodies
  /\ adResponse = NoAdResponse
  /\ promptGenerated = FALSE
  /\ videoCalls = [generate |-> 0, confirm |-> 0]

AdNext ==
  \/ AdValidate
  \/ \E ok \in BOOLEAN : PromptGenerated(ok)
  \/ \E ok \in BOOLEAN : VideoGenerated(ok)
  \/ Confirm
  \/ \E ok \in BOOLEAN : ConfirmVideoGenerated(ok)

AdSpec == AdInit /\ [][AdNext]_vars

\* one submission of the form of BrandWorkflowRunner
UiInit ==
  /\ body = ValidBody
  /\ HandlerInit
  /\ ExecIdle
  /\ PollIdle
  /\ AdIdle
  /\ upc = "idle"
  /\ canSubmit \in BOOLEAN
  /\ uiReply \in {"rejected", "not-ok", "json", "no-body", "stream"}
  /\ uiStream \in Streams
  /\ delivered = {}
  /\ loading = FALSE
  /\ uiError \in {"null", "Please upload a valid video file (mp4, webm, mov...)."}
  /\ workflowResult \in {NullResult, FinalResult}
  /\ expandedStepId = "null"

UiNext ==
  \/ Submit
  \/ Respond
  \/ \E n \in 1..2 : Read(n)
  \/ ReadDone

UiSpec == UiInit /\ [][UiNext]_vars

(* ============================== properties ============================= *)
ValidRequest == ValidationIssues(body) = {}

Started(s) == stepStatus[s] # "pending"

AllFanOutSucceeded == \A s \in FanOutIds : stepStatus[s] = "success"

\* C1: a chained step is never started unless the steps it follows have
\* status success: logo-detection needs all six parallel steps, color-harmony
\* needs logo-detection, synthesizer needs color-harmony, advisor needs
\* synthesizer.
C1_DependencyOrder ==
  /\ Started("logo-detection") => AllFanOutSucceeded
  /\ Started("color-harmony") => stepStatus["logo-detection"] = "success"
  /\ Started("synthesizer") => stepStatus["color-harmony"] = "success"
  /\ Started("advisor") => stepStatus["synthesizer"] = "success"

C1_Witness == stepStatus["advisor"] = "running"

\* C2: once a parallel step has failed, no chained step is ever started and
\* the run the handler receives has status failed.
C2_FanOutFailureHalts ==
  (\E s \in FanOutIds : stepStatus[s] = "failed") =>
    /\ \A c \in ChainIds : stepStatus[c] = "pending" /\ calls[c] = 0
    /\ runStatus \in {"running", "failed"}
    /\ pc # "await_run" => runStatus = "failed"

C2_Witness ==
  /\ pc = "done"
  /\ runStatus = "failed"
  /\ stepStatus["visual-style"] = "failed"
  /\ stepStatus["overall-critic"] = "success"

\* the fields of an invalid body the request is rejected for: an empty
\* companyName, an empty or missing productName, videoBase64, brandLogoBase64
Offending(b) ==
  {f \in {"companyName"} : b.companyName = Empty}
  \cup {f \in {"productName"} : b.productName # Data}
  \cup {f \in {"videoBase64"} : b.videoBase64 # Data}
  \cup {f \in {"brandLogoBase64"} : b.brandLogoBase64 # Data}

\* the flattened details name field f: as a key or in a message
Names(details, f) ==
  \E d \in details : d.key = f \/ d.message = f \o " is required"

NoRunNoStream ==
  /\ runStatus = "none"
  /\ \A s \in StepIds : stepStatus[s] = "pending" /\ calls[s] = 0
  /\ channel = <<>>
  /\ ~closed
  /\ response.kind # "event-stream"

\* C3: a body with an empty companyName (or an empty or missing productName,
\* videoBase64, brandLogoBase64) is answered with 400 and details naming each
\* offending field; no run is created, no step runs, no stream is opened,
\* with or without stream: true.
C3_InvalidRejectedNamingField ==
  Offending(body) # {} =>
    /\ NoRunNoStream
    /\ pc # "validate" =>
         /\ pc = "done"
         /\ response.code = 400
         /\ \A f \in Offending(body) : Names(response.details, f)

\* field f of the body is absent from brandContext and the details report
\* its parent: brandContext with the message Required
ReportedUnderParent(details, b, f) ==
  /\ f \in {"companyName", "productName"}
  /\ b[f] = Missing
  /\ \E d \in details : d.key = "brandContext" /\ d.message = "Required"

\* C3 (amended): an invalid body is answered with 400, no run is created, no
\* step runs and no stream is opened, with or without stream: true; the
\* details name every offending field that is empty or is a missing
\* top-level field, and report a field missing from brandContext under
\* brandContext.
C3_InvalidRejected ==
  Offending(body) # {} =>
    /\ NoRunNoStream
    /\ pc # "validate" =>
         /\ pc = "done"
         /\ response.code = 400
         /\ response.error = "Invalid request body"
         /\ \A f \in Offending(body) :
              \/ Names(response.details, f)
              \/ ReportedUnderParent(response.details, body, f)

C3_Witness ==
  /\ pc = "done"
  /\ body.stream
  /\ body.companyName = Empty
  /\ body.productName = Data
  /\ response.code = 400
  /\ Names(response.details, "companyName")

Terminal(e) == e.type \in {"complete", "error"}

Last(seq) == seq[Len(seq)]

\* C4: on a stream a terminal event (complete or error) is the last event,
\* the stream is closed exactly when it carries one, and a finished stream
\* request carries one: nothing is enqueued after a terminal event.
C4_TerminalEventLast ==
  /\ \A i \in 1..Len(channel) : Terminal(channel[i]) => i = Len(channel)
  /\ closed <=> (channel # <<>> /\ Terminal(Last(channel)))
  /\ (pc = "done" /\ ValidRequest /\ body.stream) => closed

C4_Witness ==
  /\ closed
  /\ Len(channel) > 2
  /\ Last(channel).type = "complete"

\* C5: on a stream at most one step event carries a given step id, the
\* input step included.
C5_OneStepEventPerId ==
  \A i, j \in 1..Len(channel) :
    (/\ channel[i].type = "step"
     /\ channel[j].type = "step"
     /\ channel[i].step.id = channel[j].step.id) => i = j

\* the step list the caller receives: that of the JSON response, or that of
\* the terminal event
DeliveredSteps ==
  IF body.stream
  THEN (IF channel # <<>> /\ Terminal(Last(channel)) THEN Last(channel).steps ELSE <<>>)
  ELSE response.steps

DeliveredStatus ==
  IF body.stream
  THEN (IF channel # <<>> /\ Terminal(Last(channel)) THEN Last(channel).status ELSE "none")
  ELSE response.status

\* the handler has reported a run that ended
RunReported == pc = "done" /\ runStatus \in {"success", "failed"}

\* C6: the step list of every reported run, successful or failed, has one
\* record per declared step plus the input step: eleven records.
C6_DeclaredStepsPlusInput ==
  RunReported =>
    /\ Len(DeliveredSteps) = Cardinality(StepIds) + 1
    /\ {DeliveredSteps[i].id : i \in 1..Len(DeliveredSteps)} = StepIds \cup {InputId}

\* exactly one content-review step failed, the other five parallel steps
\* succeeded
OneReviewFailed(f) ==
  /\ f \in {"safety-ethics", "message-clarity"}
  /\ stepStatus[f] = "failed"
  /\ \A s \in FanOutIds \ {f} : stepStatus[s] = "success"

\* C7: when one content-review step fails and the other five parallel steps
\* succeed, the reported run is failed and the reported step list holds the
\* five records with status success and their outputs.
C7_SiblingsRetained ==
  \A f \in FanOutIds :
    (RunReported /\ OneReviewFailed(f)) =>
      /\ runStatus = "failed"
      /\ DeliveredStatus = "failed"
      /\ \A s \in FanOutIds \ {f} :
           /\ stepOutput[s] = SuccessOutput(s, <<>>) \/ s = "frame-extraction"
           /\ stepOutput[s] # NullOutput
           /\ \E i \in 1..Len(DeliveredSteps) :
                /\ DeliveredSteps[i].id = s
                /\ DeliveredSteps[i].status = "success"
                /\ DeliveredSteps[i].output = stepOutput[s]

C7_Witness ==
  /\ RunReported
  /\ ~body.stream
  /\ OneReviewFailed("message-clarity")
  /\ Len(stepOutput["frame-extraction"].frames) = 2

ZeroFrames ==
  /\ stepStatus["frame-extraction"] = "success"
  /\ Len(stepOutput["frame-extraction"].frames) = 0

\* C8: when frame-extraction succeeds with no frame (also when every frame
\* lacked image data), logo-detection fails with the no-frames error without
\* calling its collaborator, the run is failed and color-harmony stays
\* pending.
C8_ZeroFramesFailFast ==
  ZeroFrames =>
    /\ stepStatus["logo-detection"] \in {"pending", "failed"}
    /\ stepStatus["logo-detection"] = "failed" =>
         /\ stepError["logo-detection"] = NoFramesError
         /\ runStatus = "failed"
    /\ (AllFanOutSucceeded /\ pc # "await_run") =>
         /\ stepStatus["logo-detection"] = "failed"
         /\ runStatus = "failed"
    /\ stepStatus["color-harmony"] = "pending"
    /\ calls["logo-detection"] = 0 /\ calls["color-harmony"] = 0

C8_Witness ==
  /\ ZeroFrames
  /\ pc = "done"
  /\ stepStatus["logo-detection"] = "failed"

RECURSIVE StepEventIds(_, _)
StepEventIds(ch, i) ==
  IF i > Len(ch) THEN <<>>
  ELSE IF ch[i].type = "step" /\ ch[i].step.id \in StepIds
       THEN <<ch[i].step.id>> \o StepEventIds(ch, i + 1)
       ELSE StepEventIds(ch, i + 1)

\* the declared steps in the order they completed
RECURSIVE CompletionOrder(_, _)
CompletionOrder(keys, i) ==
  IF i > Len(keys) THEN <<>>
  ELSE IF keys[i] \in StepIds
       THEN <<keys[i]>> \o CompletionOrder(keys, i + 1)
       ELSE CompletionOrder(keys, i + 1)

\* C9: a finished stream carries one step event per completed step, in the
\* order the steps completed, followed by the terminal event.
C9_StepEventsInCompletionOrder ==
  (RunReported /\ body.stream) =>
    /\ StepEventIds(channel, 1) = CompletionOrder(executionSteps, 1)
    /\ Terminal(Last(channel))

\* C10: a run that ends with a status other than success is answered, in
\* buffered mode, with a non-success HTTP status and a body carrying the
\* run's status and step list; on a stream, with a terminal error event
\* carrying the failure detail and no complete event.
C10_FailureReported ==
  (RunReported /\ runStatus # "success") =>
    IF body.stream
    THEN /\ Last(channel).type = "error"
         /\ Last(channel).status = runStatus
         /\ Last(channel).detail = runError
         /\ runError # NoError
         /\ \A i \in 1..Len(channel) : channel[i].type # "complete"
    ELSE /\ response.code >= 400
         /\ response.status = runStatus
         /\ response.steps = ExecutionEntries
         /\ \E i \in 1..Len(response.steps) : response.steps[i].status = "failed"

C10_Witness ==
  /\ RunReported
  /\ ~body.stream
  /\ stepStatus["color-harmony"] = "failed"

\* the run's status and headline result as the caller receives them
DeliveredResult ==
  IF body.stream
  THEN (IF channel # <<>> /\ Terminal(Last(channel)) THEN Last(channel).result ELSE NullOutput)
  ELSE response.result

SuccessReported == RunReported /\ runStatus = "success"

\* the instant an ISO string denotes
parseISO(iso) == iso[2]

\* a formatted record carries both timestamps and does not end before it
\* starts
EndsAfterStart(rec) ==
  /\ rec.startedAt # NullIso
  /\ rec.endedAt # NullIso
  /\ parseISO(rec.endedAt) >= parseISO(rec.startedAt)

\* C11: in the step list reported for a successful run every record, the
\* input step included, has status success and an endedAt that is not
\* earlier than its startedAt.
C11_SuccessRecords ==
  SuccessReported =>
    \A i \in 1..Len(DeliveredSteps) :
      /\ DeliveredSteps[i].status = "success"
      /\ EndsAfterStart(DeliveredSteps[i])

FanOutView(steps) ==
  {[id |-> steps[i].id, status |-> steps[i].status, output |-> steps[i].output] :
     i \in {j \in 1..Len(steps) : steps[j].id \in FanOutIds}}

FanOutCount(steps) == Cardinality({j \in 1..Len(steps) : steps[j].id \in FanOutIds})

\* what the collaborators' answers make of the six parallel steps
FanOutFromResponses ==
  {[id |-> s, status |-> stepStatus[s], output |-> stepOutput[s]] : s \in FanOutIds}

\* C14: for the same input and the same collaborator responses the step
\* list of the complete event and the step list of the buffered response,
\* both restricted to the six parallel steps, hold the same step ids once
\* each with equal status and output, in whatever order the steps settled.
C14_FanOutListsAgree ==
  SuccessReported =>
    /\ FanOutView(DeliveredSteps) = FanOutFromResponses
    /\ FanOutCount(DeliveredSteps) = Len(FanOut)
    /\ \A s \in FanOutIds : stepOutput[s] \in {SuccessOutput(s, raw) : raw \in Responses(s)}

C14_Witness ==
  /\ SuccessReported
  /\ body.stream
  /\ Last(channel).type = "complete"
  /\ \E i \in 1..Len(FanOut) : DeliveredSteps[i + 2].id # FanOut[i]
  /\ \E i \in 1..Len(DeliveredSteps) :
        /\ DeliveredSteps[i].id = "frame-extraction"
        /\ Len(DeliveredSteps[i].output.frames) = MaxFrames

InputRecords(steps) == {i \in 1..Len(steps) : steps[i].id = InputId}

\* C15: every step list returned to the caller, in the buffered response or
\* in the complete event, holds exactly one record with id input; it is the
\* first element, its status is success and its payload is the validated
\* request.
C15_OneInputRecord ==
  SuccessReported =>
    /\ InputRecords(DeliveredSteps) = {1}
    /\ DeliveredSteps[1].status = "success"
    /\ DeliveredSteps[1].payload = "validation.data"

\* a step status does not move backward, and a settled one does not move
Forward(a, b) ==
  \/ a = b
  \/ a = "pending" /\ b \in {"running", "failed"}
  \/ a = "running" /\ b \in {"success", "failed"}

StatusMovesForward ==
  /\ \A s \in StepIds : Forward(stepStatus[s], stepStatus'[s])
  /\ runStatus = "failed" => runStatus' = "failed"
  /\ runStatus = "success" => runStatus' = "success"

\* C18: a step's status only moves forward along pending, running, then
\* success or failed; success and failed are absorbing, and a failed run
\* never becomes success.
C18_StatusMovesForward == [][StatusMovesForward]_vars

C18_Witness ==
  /\ pc = "done"
  /\ runStatus = "failed"
  /\ stepStatus["synthesizer"] = "failed"
  /\ stepStatus["advisor"] = "pending"
  /\ \A s \in FanOutIds : stepStatus[s] = "success"

PrecheckErrors == {NoFramesError, NoLogoError, BrandContextError}

\* C19: every invocation of a step's execute function issues exactly one
\* outbound call to its collaborator.
C19_ExactlyOneCall == \A s \in StepIds : Started(s) => calls[s] = 1

\* C19 (amended): an invocation of execute issues at most one outbound call:
\* exactly one, unless logo-detection's precondition check throws, and then
\* none; a step that was not invoked issues none, and no call is repeated.
C19_AtMostOneCall ==
  \A s \in StepIds :
    /\ calls[s] <= 1
    /\ ~Started(s) => calls[s] = 0
    /\ Started(s) => (calls[s] = 0 <=> (s = "logo-detection" /\ stepError[s] \in PrecheckErrors))

C19_Witness ==
  /\ stepStatus["logo-detection"] = "failed"
  /\ stepError["logo-detection"] = NoFramesError
  /\ calls["logo-detection"] = 0
  /\ \A s \in FanOutIds : calls[s] = 1

\* C16: normalizing an output that a step's normalizer produced yields the
\* same output again, for every step and every collaborator response.
C16_NormalizeIdempotent == xpc = "renormalized" => xAgain = xResult

\* the response body omits output field f under every accepted spelling
Omitted(f) ==
  /\ Get(xReply.payload.top, f) = Absent
  /\ Get(xReply.payload.top, Chains(xStep)[f].alt) = Absent

\* the defaults the claim lists: empty list, 0, null, false, empty string
ListedDefaults == {EmptyList, Num(0), Null, False, Str("")}

\* C17: when the response omits an output field under both spellings the
\* normalized output holds one of the listed defaults (empty list, 0, null,
\* false or empty string) for it, and no output field is ever undefined.
C17_ListedDefaultFilled ==
  xpc = "returned" =>
    \A f \in DOMAIN xResult.top :
      /\ xResult.top[f] # Absent
      /\ Omitted(f) => xResult.top[f] \in ListedDefaults

\* the fallback the code gives each output field
CodeDefault(f) ==
  IF f = "report" THEN WholePayload
  ELSE IF f = "extraction_rate" THEN Num(DefaultExtractionRate)
  ELSE IF f \in {"frame_colors", "brand_logo_colors"} THEN EmptyPalette
  ELSE IF f \in {"prompt", "validationPrompt", "analysis"} THEN Str("")
  ELSE IF f \in {"warnings", "recommendations"} THEN EmptyList
  ELSE IF f = "logo_found" THEN False
  ELSE IF f \in {"logo_colors", "primary_detection", "method_used", "notes"} THEN Null
  ELSE Num(0)

Defined(obj) == \A f \in DOMAIN obj : obj[f].t # "undefined"

\* C17 (amended): every output field is present in the normalized output,
\* in its list elements and in its primary detection too; a field omitted
\* under both spellings holds the code's fallback, which is the whole
\* response body for report, 2 for extraction_rate, an empty palette for
\* frame_colors and brand_logo_colors, and else an empty list, 0, null,
\* false or the empty string.
C17_CodeDefaultFilled ==
  xpc = "returned" =>
    /\ DOMAIN xResult.top = DOMAIN Chains(xStep)
    /\ Defined(xResult.top)
    /\ Defined(xResult.nested)
    /\ \A i \in 1..Len(xResult.items) : Defined(xResult.items[i])
    /\ \A f \in DOMAIN xResult.top : Omitted(f) => xResult.top[f] = CodeDefault(f)

C17_Witness ==
  /\ xpc = "returned"
  /\ xStep = "color-harmony"
  /\ \A f \in DOMAIN xResult.top : Omitted(f)
  /\ xResult.top["frame_colors"] = EmptyPalette
  /\ xResult.top["overall_score"] = Num(0)

\* the collaborator's error body reports a detail
Reported(v) == xReply.parseable /\ ~Nullish(v)

\* C20: a step whose collaborator answers with a non-success status fails
\* with the collaborator's detail, else its error, when the body reports
\* one, and with the generic message otherwise: a parseable body without
\* detail or error yields the generic message.
C20_DetailElseGeneric ==
  (xpc = "thrown" /\ ~xReply.ok) =>
    xThrown = IF Reported(Get(xReply.payload.top, "detail"))
              THEN Get(xReply.payload.top, "detail")
              ELSE IF Reported(Get(xReply.payload.top, "error"))
              THEN Get(xReply.payload.top, "error")
              ELSE GenericMessage(xStep)

NumericFields ==
  {"frame_number", "timestamp", "extraction_rate", "total_frames_extracted",
   "video_duration", "video_fps", "confidence", "overall_score",
   "color_alignment_score"}

\* what the response gives for output field f of the body
Given(f) ==
  Coalesce(Get(xReply.payload.top, f), Get(xReply.payload.top, Chains(xStep)[f].alt))

IsNumber(v) == v.t = "number"

NumbersIn(obj) == \A f \in DOMAIN obj \cap NumericFields : IsNumber(obj[f])

\* C21: every numeric field of a normalized output is a number: a value
\* given as the string representation of a number is parsed to that number,
\* and a value that cannot be parsed is replaced by the field's default.
C21_NumericFieldsParsed ==
  xpc = "returned" =>
    /\ NumbersIn(xResult.top)
    /\ NumbersIn(xResult.nested)
    /\ \A i \in 1..Len(xResult.items) : NumbersIn(xResult.items[i])
    /\ \A f \in DOMAIN xResult.top \cap NumericFields :
          /\ Given(f) = DecimalStr(1) => xResult.top[f] = Num(1)
          /\ Given(f) = Str("x") => xResult.top[f] = Chains(xStep)[f].default

RunEnded == runStatus \in {"success", "failed"}

StreamEnded == closed /\ channel # <<>> /\ Terminal(Last(channel))

\* C22: when every collaborator call resolves, a started run reaches
\* success or failed, and on a stream the controller is then closed after a
\* complete or error event: no run stays running forever.
C22_RunTerminates ==
  (runStatus = "running") ~> (RunEnded /\ pc = "done" /\ (body.stream => StreamEnded))

C22_Witness ==
  /\ body.stream
  /\ runStatus = "failed"
  /\ stepStatus["color-harmony"] = "failed"
  /\ pc = "done"
  /\ StreamEnded
  /\ Last(channel).type = "error"

\* the parallel block has failed the run
FanOutFailed == runStatus = "failed" /\ \E s \in FanOutIds : stepStatus[s] = "failed"

\* C24: when a parallel step fails its siblings are not cancelled: the run
\* fails only after each of them has settled with its own success or
\* failure, a sibling that succeeded keeps status success and its output in
\* the run's step records, and no later step is started.
C24_SiblingsFinish ==
  FanOutFailed =>
    /\ \A s \in FanOutIds :
          /\ stepStatus[s] \in {"success", "failed"}
          /\ s \in Range(executionSteps)
          /\ endedAt[s] # NoTime
          /\ stepStatus[s] = "success" =>
                /\ stepOutput[s] # NullOutput
                /\ EngineRecord(s).status = "success"
                /\ EngineRecord(s).output = stepOutput[s]
    /\ \A c \in ChainIds : ~Started(c) /\ DOMAIN requests[c] = {}

\* a sibling settled with success after another parallel step had failed
C24_Witness ==
  /\ FanOutFailed
  /\ stepStatus["overall-critic"] = "failed"
  /\ stepStatus["frame-extraction"] = "success"
  /\ endedAt["frame-extraction"] > endedAt["overall-critic"]
  /\ stepStatus["audio-analysis"] = "failed"
  /\ endedAt["audio-analysis"] > endedAt["overall-critic"]

\* C25: the request the synthesizer step sends carries data from the
\* logo-detection output and from the color-harmony output.
C25_SynthesizerUsesDetectionAndPalette ==
  DOMAIN requests["synthesizer"] # {} =>
    {"logo-detection", "color-harmony"} \subseteq DOMAIN requests["synthesizer"]

\* C26: the six parallel steps are started together against the initial
\* request: none is pending while a sibling runs or has settled, all carry
\* the same start time, and the request of each is built from the initial
\* request alone.
C26_FanOutStartedTogether ==
  runStatus # "none" =>
    \A s \in FanOutIds :
      /\ Started(s)
      /\ calls[s] = 1
      /\ \A t \in FanOutIds : startedAt[s] = startedAt[t]
      /\ DOMAIN requests[s] = {InputId}
      /\ requests[s][InputId] = InputData

\* one parallel step is still running after the other five have settled,
\* whichever it is
C26_Witness ==
  /\ runStatus = "running"
  /\ stepStatus["overall-critic"] = "running"
  /\ \A s \in FanOutIds \ {"overall-critic"} : stepStatus[s] \in {"success", "failed"}

\* the first precondition of logo-detection that the input violates
FirstViolated(input) ==
  IF Len(input.frames) = 0 THEN "No frames available from frame extraction step"
  ELSE IF input.brandLogoBase64 # Data THEN "Brand logo is missing"
  ELSE IF input.companyName # Data \/ input.productName # Data
       THEN "Brand context is incomplete (missing companyName or productName)"
  ELSE "none"

\* C27: logo-detection invoked with an empty frame list, a missing brand
\* logo or an empty companyName or productName fails without sending a
\* request, and its error names the first violated precondition in the
\* order frames, logo, brand context; otherwise it sends its request.
C27_PreconditionsBeforeFetch ==
  (xStep = "logo-detection" /\ xpc # "start") =>
    IF FirstViolated(xInput) # "none"
    THEN xpc = "thrown" /\ xCalls = 0 /\ xThrown = Str(FirstViolated(xInput))
    ELSE xCalls = 1

C27_Witness ==
  /\ xStep = "logo-detection"
  /\ xpc = "thrown"
  /\ Len(xInput.frames) = 0
  /\ xInput.brandLogoBase64 = Missing
  /\ xInput.companyName = Empty
  /\ xThrown = Str(NoFramesError)
  /\ xCalls = 0

ImageNames == {"image_base64", "imageBase64", "image"}

\* the raw frame carries a non-empty image string under some accepted name
CarriesImage(frame) ==
  \E name \in ImageNames : Get(frame, name).t = "string" /\ Get(frame, name).s # ""

\* the output frames are raw frames idx[1] < idx[2] < ..., normalized
KeepsOrder(raw, frames, rate, idx) ==
  /\ \A k \in 1..Len(frames) :
        /\ frames[k] = normalizeFrame(raw[idx[k]], idx[k] - 1, rate)
        /\ CarriesImage(raw[idx[k]])
  /\ \A k \in 1..(Len(frames) - 1) : idx[k] < idx[k + 1]

\* C29: every frame of the frame-extraction output has a non-empty
\* image_base64; raw frames without an image string under image_base64,
\* imageBase64 or image are dropped, the frames that remain keep their
\* order, and a frames field that is not a list gives an empty list.
C29_FramesHaveImages ==
  (xpc = "returned" /\ xStep = "frame-extraction") =>
    LET raw == xReply.payload.items
        frames == xResult.items
    IN /\ \A k \in 1..Len(frames) :
             frames[k].image_base64.t = "string" /\ frames[k].image_base64.s # ""
       /\ ~xReply.payload.isArray => frames = <<>>
       /\ Len(frames) <= Len(raw)
       /\ \E idx \in [1..Len(frames) -> 1..Len(raw)] :
             KeepsOrder(raw, frames, xResult.top["extraction_rate"], idx)

C29_Witness ==
  /\ xpc = "returned"
  /\ xStep = "frame-extraction"
  /\ Len(xReply.payload.items) = MaxFrames
  /\ ~CarriesImage(xReply.payload.items[1])
  /\ Len(xResult.items) = MaxFrames - 1
  /\ xResult.items[1].frame_number = Num(1)

\* C23: generateVideoWithVeo3 issues at most 60 status polls and then stops:
\* it fails with the timeout error exactly when the operation is still not
\* done after the 60th poll, and an operation that reports done at or
\* before the 60th poll is never answered with the timeout error.
C23_BoundedPolling ==
  /\ polls <= maxPolls
  /\ pollCount <= polls
  /\ vpc = "timed-out" => (polls = maxPolls /\ ~operationDone)
  /\ vpc = "download" => operationDone
  /\ (vpc = "loop" /\ polls = maxPolls) => ~ENABLED (\E done \in BOOLEAN : Poll(done))

\* the operation reported done at the 60th poll
C23_Witness ==
  /\ vpc = "download"
  /\ polls = maxPolls
  /\ operationDone

\* the generate_add request has been answered
AdAnswered == apc \in {"done", "confirm-video", "confirmed"}

RunningPlaceholder ==
  \E id \in PlaceholderSteps : workflowResult.steps[id] = "running"

\* C28: when the response stream has delivered an event of type error,
\* handleSubmit ends with a non-null error message, loading false, and a
\* displayed workflow result that is not left with status running and
\* running placeholder steps.
C28_ErrorEventShown ==
  (upc = "done" /\ "error" \in delivered) =>
    /\ uiError # "null"
    /\ ~loading
    /\ ~(workflowResult.status = "running" /\ RunningPlaceholder)

====
